---- MODULE Spec2Model ----
(***************************************************************************)
(* VeriCite-Academic: the citation verification pipeline                   *)
(* (parseAndVerifyCitations) in its three versions -- the serverless one   *)
(* behind POST /verify (api/verify.ts), the client service with the        *)
(* skeptic review pass (services/geminiService.ts) and the earlier client  *)
(* service (unnamed/part_001) -- together with the HTTP handler.           *)
(*                                                                         *)
(* Strings that the code inspects (the verification text, rawText, a DOI)  *)
(* are sequences of one-character strings, so that toLowerCase, includes   *)
(* and the DOI regular expression are computed and not assumed.  An empty  *)
(* sequence stands for a falsy string (undefined or "").  Confidence       *)
(* scores are in hundredths (0.75 is 75).                                  *)
(***************************************************************************)
EXTENDS Integers, Sequences, FiniteSets, TLC

VARIABLES
    impl,        \* which code runs: "server" | "client" | "legacy" | "ask"
    aiReady,     \* client: the module-level `ai` is not null
    req,         \* the request: [method, body]
    pc,          \* position of the run
    extracted,   \* JSON.parse(parsingResponse.text): the candidates
    citations,   \* the working Citation[]
    fused,       \* the Citation[] as it was when the verification loop ended
    lookups,     \* per processed item, what the Crossref request did
    reviews,     \* JSON.parse(reviewResponse.text) when it is an array
    upstream,    \* what the extraction, review and bibliography calls did
    calls,       \* number of calls made to each collaborator
    thrown,      \* the error the pipeline rejected with ("" when none)
    outcome,     \* what the caller receives: [kind, status, error, result]
    fuseIn,      \* input of the fusion step  (specification SpecFuse)
    fuseOut,     \* output of the fusion step (specification SpecFuse)
    doiIn,       \* input of identifier extraction  (specification SpecDoi)
    doiOut,      \* output of identifier extraction (specification SpecDoi)
    metaIn,      \* input of the metadata merge  (specification SpecMeta)
    metaOut,     \* output of the metadata merge (specification SpecMeta)
    state,       \* App: the AppState of useState (specification SpecApp)
    isProcessing,\* App: the isProcessing flag of useState
    pending      \* App: runs of handleProcess awaiting parseAndVerifyCitations

vars == <<impl, aiReady, req, pc, extracted, citations, fused, lookups,
          reviews, upstream, calls, thrown, outcome, fuseIn, fuseOut,
          doiIn, doiOut, metaIn, metaOut, state, isProcessing, pending>>

appVars == <<state, isProcessing, pending>>

(***************************************************************************)
(* Bounds of the model                                                     *)
(***************************************************************************)
MaxItems == 2
MaxReviews == 2
MaxChunks == 2
MaxPending == 2     \* cap of the counter of awaited runs (never reached, see C24)

(***************************************************************************)
(* CitationStatus and the confidence scores                                *)
(***************************************************************************)
VERIFIED == "VERIFIED"
PARTIAL_MATCH == "PARTIAL_MATCH"
UNVERIFIED == "UNVERIFIED"
HALLUCINATION == "HALLUCINATION"
PENDING == "PENDING"

CitationStatus == {VERIFIED, PARTIAL_MATCH, UNVERIFIED, HALLUCINATION, PENDING}

ConfDefault == 50
ConfPartial == 75
ConfVerified == 99
ConfHallucination == 95
ConfLegacyVerified == 98

(***************************************************************************)
(* Strings                                                                 *)
(***************************************************************************)
UpperChars == <<"A","B","C","D","E","F","G","H","I","J","K","L","M",
                "N","O","P","Q","R","S","T","U","V","W","X","Y","Z">>
LowerChars == <<"a","b","c","d","e","f","g","h","i","j","k","l","m",
                "n","o","p","q","r","s","t","u","v","w","x","y","z">>
Digits == {"0","1","2","3","4","5","6","7","8","9"}

LowerChar(c) ==
    IF \E k \in 1..26 : UpperChars[k] = c
    THEN LowerChars[CHOOSE k \in 1..26 : UpperChars[k] = c]
    ELSE c

\* String.prototype.toLowerCase
ToLowerCase(s) == [i \in 1..Len(s) |-> LowerChar(s[i])]

\* String.prototype.includes
Includes(s, w) ==
    \E i \in 1..(Len(s) - Len(w) + 1) : SubSeq(s, i, i + Len(w) - 1) = w

W_verified == <<"v","e","r","i","f","i","e","d">>
W_hallucinated == <<"h","a","l","l","u","c","i","n","a","t","e","d">>
W_fabricated == <<"f","a","b","r","i","c","a","t","e","d">>
W_fake == <<"f","a","k","e">>
W_hallucination == <<"h","a","l","l","u","c","i","n","a","t","i","o","n">>

\* Texts the verification call may answer with.
TxtPlain == <<"n","o"," ","d","a","t","a">>
TxtVerified == <<"V","E","R","I","F","I","E","D">>
TxtUnverifiable == <<"U","N","V","E","R","I","F","I","A","B","L","E">>
TxtFake == <<"a"," ","F","a","k","e"," ","o","n","e">>
TxtFabricated == <<"F","A","B","R","I","C","A","T","E","D">>
TxtHallucinated == <<"h","a","l","l","u","c","i","n","a","t","e","d","!">>
TxtHallucination == <<"H","A","L","L","U","C","I","N","A","T","I","O","N">>
TxtVerifiedFake == <<"v","e","r","i","f","i","e","d"," ","f","a","k","e">>
TxtRefuted == <<"H","A","L","L","U","C","I","N","A","T","I","O","N",":"," ",
                "f","a","k","e">>

AllTexts == {TxtPlain, TxtVerified, TxtUnverifiable, TxtFake, TxtFabricated,
             TxtHallucinated, TxtHallucination, TxtVerifiedFake, TxtRefuted}
VerifyTexts == {TxtPlain, TxtVerified, TxtRefuted}

(***************************************************************************)
(* Identifier extraction: the DOI regular expression applied to rawText    *)
(***************************************************************************)
IsWordChar(c) ==
    \/ c \in Digits
    \/ c = "_"
    \/ \E k \in 1..26 : UpperChars[k] = c \/ LowerChars[k] = c

\* \b between the p-th and the (p+1)-th character of s
WordBoundary(s, p) ==
    LET left == p >= 1 /\ IsWordChar(s[p])
        right == p < Len(s) /\ IsWordChar(s[p + 1])
    IN  left # right

\* (?:(?!["&'<>])\S): a character the suffix of the DOI may hold
SuffixChar(c) == c # " " /\ c \notin {"\"", "&", "'", "<", ">"}

\* The server's and the client's pattern,
\*   /\b(10[.][0-9]{4,}(?:[.][0-9]+)*\/(?:(?!["&'<>])\S)+)\b/i
\* tried at position i: the position of the last character matched, 0 for none.
\* Every quantifier is greedy and the part before the slash holds digits and
\* dots only, so the slash is the first character after "10." that is neither,
\* and the match is the longest suffix that ends on a word boundary.
DoiMatchAt(s, i) ==
    IF ~ ( /\ i + 7 <= Len(s)
           /\ WordBoundary(s, i - 1)
           /\ s[i] = "1" /\ s[i + 1] = "0" /\ s[i + 2] = "." )
    THEN 0
    ELSE
      LET stops == {j \in (i + 3)..Len(s) : s[j] \notin Digits \cup {"."}}
      IN  IF stops = {} THEN 0
          ELSE
            LET sl == CHOOSE j \in stops : \A k \in stops : j <= k
                prefixOk ==
                    /\ s[sl] = "/"
                    /\ sl >= i + 7
                    /\ \A k \in (i + 3)..(i + 6) : s[k] \in Digits
                    /\ \A k \in (i + 3)..(sl - 1) :
                           s[k] = "." => s[k + 1] \in Digits
                ends == {e \in (sl + 1)..Len(s) :
                            /\ \A k \in (sl + 1)..e : SuffixChar(s[k])
                            /\ WordBoundary(s, e)}
            IN  IF prefixOk /\ ends # {}
                THEN CHOOSE e \in ends : \A k \in ends : k <= e
                ELSE 0

\* The earlier client's pattern, /\b10\.\d{4,9}\/\S+\b/i
DoiMatchAtLegacy(s, i) ==
    IF ~ ( /\ i + 7 <= Len(s)
           /\ WordBoundary(s, i - 1)
           /\ s[i] = "1" /\ s[i + 1] = "0" /\ s[i + 2] = "." )
    THEN 0
    ELSE
      LET stops == {j \in (i + 3)..Len(s) : s[j] \notin Digits}
      IN  IF stops = {} THEN 0
          ELSE
            LET sl == CHOOSE j \in stops : \A k \in stops : j <= k
                prefixOk == s[sl] = "/" /\ sl >= i + 7 /\ sl <= i + 12
                ends == {e \in (sl + 1)..Len(s) :
                            /\ \A k \in (sl + 1)..e : s[k] # " "
                            /\ WordBoundary(s, e)}
            IN  IF prefixOk /\ ends # {}
                THEN CHOOSE e \in ends : \A k \in ends : k <= e
                ELSE 0

\* rawText.match(doiRegex): match[0], or the empty sequence for null
MatchDoi(imp, s) ==
    LET at(i) == IF imp = "legacy" THEN DoiMatchAtLegacy(s, i)
                                   ELSE DoiMatchAt(s, i)
        starts == {i \in 1..Len(s) : at(i) > 0}
    IN  IF starts = {} THEN << >>
        ELSE LET i == CHOOSE j \in starts : \A k \in starts : j <= k
             IN  SubSeq(s, i, at(i))

\* ExtractDoi scanning rawText first and using item.doi only without a match
ExtractDoi_PreferText(imp, item) ==
    IF MatchDoi(imp, item.rawText) # << >> THEN MatchDoi(imp, item.rawText)
    ELSE item.doi

\* let doi = item.doi; if (!doi) { const match = ...; if (match) doi = match[0] }
ExtractDoi(imp, item) ==
    IF item.doi # << >> THEN item.doi ELSE MatchDoi(imp, item.rawText)

\* doi ? await fetchCrossrefMetadata(doi) : null -- is the lookup made
ShouldLookup(doi) == doi # << >>

\* Raw texts for identifier extraction: a prefix, the DOI or nothing, a suffix
Doi5 == <<"1","0",".","1","2","3","4","/","a","b","c","d",".","5">>
DoiFirst == <<"1","0",".","5","5","5","5","/","f","i","r","s","t">>
SuppliedDoi == <<"h","t","t","p","s",":","/","/","d","o","i",".","o","r","g","/","1","0",".","9","9","9","9","/","z">>
PreWithFirst == DoiFirst \o <<" ","a","n","d"," ">>
Pres == { << >>, <<"s","e","e"," ">>, <<"d","o","i",":">>, <<"(">>, <<"x">>, <<"v","_">>, PreWithFirst }
Posts == { << >>, <<".">>, <<" ","n","e","x","t">>, <<")",".">>, <<"."," ","N","e","x","t">>, <<"\"","x">>, <<",","b">> }
DoiInputs ==
    [imp : {"server", "client"}, supplied : {<< >>, SuppliedDoi},
     pre : Pres, core : {<< >>, Doi5}, post : Posts]
\* the candidate of a DoiInputs record
DoiItem(in) ==
    [id |-> "a", rawText |-> in.pre \o in.core \o in.post, title |-> "T1",
     doi |-> in.supplied, authors |-> << >>, year |-> << >>]
NoDoiIn == [imp |-> "server", supplied |-> << >>, pre |-> << >>, core |-> << >>,
            post |-> << >>]
NoDoiOut == [done |-> FALSE, doi |-> << >>, lookup |-> FALSE]

(***************************************************************************)
(* Metadata lookup                                                         *)
(***************************************************************************)
\* What the Crossref request can do: fetch rejects, the status is not OK,
\* response.json() rejects, the JSON has no `message`, or a record comes back.
LookupFailures == {"transport", "notok", "malformed", "nomessage"}
LookupOutcomes == LookupFailures \cup {"record"}

\* json.message as far as the pipelines read it: title is the title array
\* (<< >> when missing or empty), author the author array when there is one,
\* created and issued the first array of their "date-parts" (<< >> when any
\* step of the optional chain is undefined).  An author is [given, family],
\* "" for a missing part.
NoAuthor == [present |-> FALSE, list |-> << >>]
NoRecord == [found |-> FALSE, title |-> << >>, author |-> NoAuthor,
             created |-> << >>, issued |-> << >>]
CrossrefRecord ==
    [found |-> TRUE, title |-> <<"Registry title">>,
     author |-> [present |-> TRUE,
                 list |-> <<[given |-> "Ada", family |-> "Lovelace"]>>],
     created |-> <<2005, 3>>, issued |-> <<2003>>]

\* fetchCrossrefMetadata without its try/catch around fetch
FetchCrossrefMetadata_Uncaught(net) ==
    [threw |-> net = "transport",
     data  |-> IF net = "record" THEN CrossrefRecord ELSE NoRecord]

\* fetchCrossrefMetadata: threw says whether the promise rejects.
FetchCrossrefMetadata(net) ==
    [threw |-> FALSE,
     data  |-> IF net = "record" THEN CrossrefRecord ELSE NoRecord]

(***************************************************************************)
(* Evidence fusion                                                         *)
(***************************************************************************)
\* responseText.includes("hallucinated") || ...("fabricated") || ...("fake")
FabricationSignal(text) ==
    LET responseText == ToLowerCase(text)
    IN  \/ Includes(responseText, W_hallucinated)
        \/ Includes(responseText, W_fabricated)
        \/ Includes(responseText, W_fake)

\* FuseServer with the word "verified" alone giving PARTIAL_MATCH
FuseServer_WordRaises(crossref, nChunks, text) ==
    LET s0 == [status |-> UNVERIFIED, confidence |-> ConfDefault]
        s1 == IF crossref \/ nChunks > 0 \/ Includes(ToLowerCase(text), W_verified)
              THEN [status |-> PARTIAL_MATCH, confidence |-> ConfPartial]
              ELSE s0
        s2 == IF crossref /\ nChunks > 0
              THEN [status |-> VERIFIED, confidence |-> ConfVerified]
              ELSE s1
    IN  IF FabricationSignal(text)
        THEN [status |-> HALLUCINATION, confidence |-> ConfHallucination]
        ELSE s2

\* api/verify.ts: three assignments in sequence, the later one winning
FuseServer(crossref, nChunks, text) ==
    LET s0 == [status |-> UNVERIFIED, confidence |-> ConfDefault]
        s1 == IF crossref \/ nChunks > 0
              THEN [status |-> PARTIAL_MATCH, confidence |-> ConfPartial]
              ELSE s0
        s2 == IF crossref /\ nChunks > 0
              THEN [status |-> VERIFIED, confidence |-> ConfVerified]
              ELSE s1
    IN  IF FabricationSignal(text)
        THEN [status |-> HALLUCINATION, confidence |-> ConfHallucination]
        ELSE s2

\* FuseClient with the word "verified" counted as a signal of its own
FuseClient_WordCounts(crossref, nChunks, text) ==
    LET responseText == ToLowerCase(text)
        word == Includes(responseText, W_verified)
        s1 == IF crossref /\ nChunks >= 1
              THEN [status |-> VERIFIED, confidence |-> ConfVerified]
              ELSE IF crossref \/ nChunks >= 1 \/ word
                   THEN [status |-> PARTIAL_MATCH, confidence |-> ConfPartial]
                   ELSE [status |-> UNVERIFIED, confidence |-> ConfDefault]
    IN  IF FabricationSignal(text)
        THEN [status |-> HALLUCINATION, confidence |-> ConfHallucination]
        ELSE s1

\* services/geminiService.ts
FuseClient(crossref, nChunks, text) ==
    LET responseText == ToLowerCase(text)
        s0 == [status |-> UNVERIFIED, confidence |-> ConfDefault]
        hasDoiMatch == crossref
        hasSearchMatch == nChunks >= 1
        s1 == IF crossref \/ Includes(responseText, W_verified) \/ nChunks >= 1
              THEN IF hasDoiMatch /\ hasSearchMatch
                   THEN [status |-> VERIFIED, confidence |-> ConfVerified]
                   ELSE IF hasDoiMatch \/ hasSearchMatch
                        THEN [status |-> PARTIAL_MATCH, confidence |-> ConfPartial]
                        ELSE s0
              ELSE s0
    IN  IF FabricationSignal(text)
        THEN [status |-> HALLUCINATION, confidence |-> ConfHallucination]
        ELSE s1

\* unnamed/part_001: no grounding; the model's own word decides
FuseLegacy(crossref, nChunks, text) ==
    LET r == ToLowerCase(text)
    IN  IF Includes(r, W_hallucination)
        THEN [status |-> HALLUCINATION, confidence |-> ConfHallucination]
        ELSE IF crossref \/ Includes(r, W_verified)
             THEN [status |-> VERIFIED, confidence |-> ConfLegacyVerified]
             ELSE [status |-> UNVERIFIED, confidence |-> ConfDefault]

Fuse(imp, crossref, nChunks, text) ==
    CASE imp = "server" -> FuseServer(crossref, nChunks, text)
      [] imp = "client" -> FuseClient(crossref, nChunks, text)
      [] OTHER          -> FuseLegacy(crossref, nChunks, text)

(***************************************************************************)
(* Inputs: what the collaborators may answer                               *)
(***************************************************************************)
RawWithDoi == <<"S","m","i","t","h"," ","1","0",".","1","2","3","4","/",
                "a","b","c","d",".","5",".">>
RawNoDoi == <<"D","o","e"," ","2","0","2","0">>

\* The extractor's guesses: authors is a list of names, a name and a year are
\* strings; << >> stands for a field left out
ItemAuthors == << <<"J. Doe">> >>
ItemYear == <<"2","0","1","9">>

\* Candidates of the extraction call: {id, rawText, title, authors, year, doi}; "" and << >>
\* are the falsy values of a field the extractor left out.  The first carries
\* its DOI in rawText; the second has neither an id nor a DOI.
Candidates ==
    { [id |-> "a", rawText |-> RawWithDoi, title |-> "T1", doi |-> << >>,
       authors |-> ItemAuthors, year |-> ItemYear],
      [id |-> "",  rawText |-> RawNoDoi,   title |-> "T2", doi |-> << >>,
       authors |-> << >>, year |-> << >>] }

SeqsUpTo(S, n) == UNION {[1..k -> S] : k \in 0..n}

\* Math.random().toString(36).slice(2)
GeneratedIds == {"g1", "g2"}

\* Entries of the review call's array: {id, newStatus, reasoning}
ReviewIds == {"a", "g1"}
ReviewStatuses == {VERIFIED, "UNVERIFIABLE"}
Reasoning == <<"n","o","t"," ","s","u","r","e">>
ReviewEntries == [id : ReviewIds, newStatus : ReviewStatuses, reasoning : {Reasoning}]

\* The parsed bibliography object: its keys and the string under each
BibKeys == {"apa", "mla", "chicago", "ieee"}
BibFull == [keys |-> BibKeys, val |-> [k \in BibKeys |-> "refs"]]
BibNoKeys == [keys |-> {}, val |-> [k \in BibKeys |-> ""]]
BibObjects == {BibFull, BibNoKeys}
\* let multiStyleBib = undefined
NoBib == [present |-> FALSE, obj |-> BibNoKeys]

(***************************************************************************)
(* The Citation pushed for one item                                        *)
(***************************************************************************)
DigitSeq == <<"0","1","2","3","4","5","6","7","8","9">>
RECURSIVE NumToString(_)
\* Number.prototype.toString of a non-negative integer
NumToString(n) ==
    IF n < 10 THEN <<DigitSeq[n + 1]>>
    ELSE NumToString(n \div 10) \o <<DigitSeq[(n % 10) + 1]>>

\* `${a.given} ${a.family}`: a missing part prints as the word undefined
AuthorName(a) ==
    <<IF a.given = "" THEN "undefined" ELSE a.given, " ",
      IF a.family = "" THEN "undefined" ELSE a.family>>

\* ParsedMetadata keeping the extractor's value of a field when it gave one
ParsedMetadata_ExtractorFirst(imp, item, cr) ==
    [ title |-> IF item.title # "" THEN item.title
                ELSE IF cr.found /\ cr.title # << >> THEN cr.title[1] ELSE "",
      authors |-> IF item.authors # << >> THEN item.authors
                  ELSE IF cr.found /\ cr.author.present
                       THEN [k \in 1..Len(cr.author.list) |-> AuthorName(cr.author.list[k])]
                       ELSE << >>,
      year |-> IF item.year # << >> THEN item.year
               ELSE IF cr.found /\ cr.created # << >>
                    THEN NumToString(cr.created[1]) ELSE << >> ]

\* title, authors and year of parsedMetadata.  The server and the client
\* join with || (an empty registry title gives way to the extractor's) and
\* read the year from `created`; the earlier client joins with ?? and reads
\* `issued`.
ParsedMetadata(imp, item, cr) ==
    LET dp == IF imp = "legacy" THEN cr.issued ELSE cr.created
    IN  [ title |->
              IF cr.found /\ cr.title # << >>
                 /\ (imp = "legacy" \/ cr.title[1] # "")
              THEN cr.title[1] ELSE item.title,
          authors |->
              IF cr.found /\ cr.author.present
              THEN [k \in 1..Len(cr.author.list) |-> AuthorName(cr.author.list[k])]
              ELSE item.authors,
          year |->
              IF cr.found /\ dp # << >> THEN NumToString(dp[1]) ELSE item.year ]

\* What the extractor and the registry may hold for the three fields
MetaItems ==
    [title : {"", "T1"}, authors : {<< >>, ItemAuthors}, year : {<< >>, ItemYear}]
MetaRecords ==
    {NoRecord} \cup
    [found : {TRUE},
     title : {<< >>, <<"">>, <<"Registry title">>},
     author : {NoAuthor,
               [present |-> TRUE, list |-> << >>],
               [present |-> TRUE,
                list |-> <<[given |-> "Ada", family |-> "Lovelace"],
                           [given |-> "", family |-> "Turing"]>>]},
     created : {<< >>, <<2005, 3>>},
     issued : {<< >>, <<2003>>}]
NoMetaIn == [imp |-> "server", item |-> [title |-> "", authors |-> << >>, year |-> << >>],
             cr |-> NoRecord]
NoMetaOut == [done |-> FALSE, title |-> "", authors |-> << >>, year |-> << >>]

\* citations.push({...}); cr is crossrefData, n the number of grounding chunks
MakeCitation(imp, item, doi, cr, n, text, genId) ==
    LET f == Fuse(imp, cr.found, n, text)
        meta == ParsedMetadata(imp, item, cr)
    IN  [ id |-> IF imp = "legacy" THEN item.id
                 ELSE IF item.id # "" THEN item.id ELSE genId,
          rawText |-> item.rawText,
          title |-> meta.title,
          authors |-> meta.authors,
          year |-> meta.year,
          doi |-> doi,
          status |-> f.status,
          confidenceScore |-> f.confidence,
          explanation |-> text,
          sourceUrl |->
              IF imp # "legacy" /\ n > 0 THEN <<"grounding uri">>
              ELSE IF doi # << >> THEN <<"https://doi.org/">> \o doi
              ELSE << >>,
          verificationSource |->
              IF imp = "legacy"
              THEN (IF cr.found THEN <<"Crossref">> ELSE <<"Gemini">>)
              ELSE (IF cr.found THEN <<"Crossref ">> ELSE << >>)
                   \o (IF n > 0
                       THEN (IF imp = "server" THEN <<"+ Web Search">>
                                               ELSE <<"+ Web Scholarly Index">>)
                       ELSE << >>) ]

(***************************************************************************)
(* Skeptic review                                                          *)
(***************************************************************************)
ReviewMarker == <<"\n", "\n", "[Skeptic Review]: ">>

\* FindReview taking the first entry whatever its id
FindReview_AnyId(rs, c) == IF Len(rs) = 0 THEN 0 ELSE 1

\* reviews.find(r => r.id === c.id): the index of the first such entry, 0 for none
FindReview(rs, c) ==
    LET hits == {k \in 1..Len(rs) : rs[k].id = c.id}
    IN  IF hits = {} THEN 0 ELSE CHOOSE k \in hits : \A j \in hits : k <= j

\* ReviewOne putting the reasoning in place of the explanation
ReviewOne_Overwrite(rs, c) ==
    LET k == FindReview(rs, c)
    IN  IF k # 0 /\ rs[k].newStatus # c.status
        THEN [c EXCEPT !.status = rs[k].newStatus,
                       !.explanation = ReviewMarker \o rs[k].reasoning]
        ELSE c

\* ReviewOne applying downgrades of a VERIFIED citation only
ReviewOne_DowngradeOnly(rs, c) ==
    LET k == FindReview(rs, c)
    IN  IF k # 0 /\ rs[k].newStatus # c.status /\ c.status = VERIFIED
        THEN [c EXCEPT !.status = rs[k].newStatus,
                       !.explanation = c.explanation \o ReviewMarker \o rs[k].reasoning]
        ELSE c

\* the callback of citations.map
ReviewOne(rs, c) ==
    LET k == FindReview(rs, c)
    IN  IF k # 0 /\ rs[k].newStatus # c.status
        THEN [c EXCEPT !.status = rs[k].newStatus,
                       !.explanation = c.explanation \o ReviewMarker \o rs[k].reasoning]
        ELSE c

\* ApplyReviews keeping only one citation per id
ApplyReviews_Dedup(rs, cs) ==
    LET firsts == {i \in 1..Len(cs) : \A j \in 1..(i - 1) : cs[j].id # cs[i].id}
        F[i \in 0..Len(cs)] ==
            IF i = 0 THEN << >>
            ELSE IF i \in firsts THEN Append(F[i - 1], ReviewOne(rs, cs[i]))
            ELSE F[i - 1]
    IN  F[Len(cs)]

\* citations = citations.map(c => ...)
ApplyReviews(rs, cs) == [i \in 1..Len(cs) |-> ReviewOne(rs, cs[i])]

(***************************************************************************)
(* Result assembly                                                         *)
(***************************************************************************)
\* citations.filter(c => c.status === CitationStatus.VERIFIED)
VerifiedOf(cs) == SelectSeq(cs, LAMBDA c : c.status = VERIFIED)

\* Summary with PARTIAL_MATCH left out of `unverified`
Summary_NoPartial(imp, cs) ==
    [ total |-> Len(cs),
      verified |-> Len(VerifiedOf(cs)),
      hallucinated |-> Len(SelectSeq(cs, LAMBDA c : c.status = HALLUCINATION)),
      unverified |-> Len(SelectSeq(cs, LAMBDA c : c.status = UNVERIFIED)) ]

\* the summary object of the return statement
Summary(imp, cs) ==
    [ total |-> Len(cs),
      verified |-> Len(VerifiedOf(cs)),
      hallucinated |-> Len(SelectSeq(cs, LAMBDA c : c.status = HALLUCINATION)),
      unverified |->
          IF imp = "legacy"
          THEN Len(SelectSeq(cs, LAMBDA c : c.status = UNVERIFIED))
          ELSE Len(SelectSeq(cs, LAMBDA c : c.status = UNVERIFIED
                                             \/ c.status = PARTIAL_MATCH)) ]

MakeResult(imp, cs, bib) ==
    [citations |-> cs, summary |-> Summary(imp, cs), multiStyleBib |-> bib]

NoResult == MakeResult("server", << >>, NoBib)
NoOutcome == [kind |-> "none", status |-> 0, error |-> "", result |-> NoResult]

\* Rejected with the handler passing the upstream error on
Rejected_Leaky(imp, cause) ==
    [kind |-> "error", status |-> IF imp = "server" THEN 500 ELSE 0,
     error |-> cause, result |-> NoResult]

\* What the caller gets when the pipeline rejects with `cause`: the handler's
\* catch answers 500 {error: "Verification failed"}; the services rethrow.
Rejected(imp, cause) ==
    IF imp = "server"
    THEN [kind |-> "error", status |-> 500, error |-> "Verification failed",
          result |-> NoResult]
    ELSE [kind |-> "error", status |-> 0, error |-> cause, result |-> NoResult]

\* res.status(200).json(result) / return {...}
Returned(imp, result) ==
    [kind |-> "result", status |-> IF imp = "server" THEN 200 ELSE 0,
     error |-> "", result |-> result]

(***************************************************************************)
(* App: the state of the React component and its updater functions         *)
(***************************************************************************)
FREE == "FREE"
PRO == "PRO"
InitialAnalyses == 10

\* `results: null`, or the VerificationResult the pipeline resolved with
NullResults == [present |-> FALSE, value |-> NoResult]
SomeResults == [present |-> TRUE, value |-> MakeResult("client", << >>, NoBib)]

LimitMessage == "Analysis limit reached. Upgrade to Pro for unlimited verification."
FailureMessage ==
    "Verification failed. System load is high or academic databases are unreachable."

\* What the textarea may hold: nothing, a blank, a text
InputTexts == { << >>, <<" ">>, <<"d","o","c">> }

RECURSIVE Trim(_)
\* String.prototype.trim, blanks being the only white space of InputTexts
Trim(t) ==
    IF t = << >> THEN t
    ELSE IF Head(t) = " " THEN Trim(Tail(t))
    ELSE IF t[Len(t)] = " " THEN Trim(SubSeq(t, 1, Len(t) - 1))
    ELSE t

\* useState<AppState>({...}); error "" is null
InitialState ==
    [view |-> "input", inputText |-> << >>, results |-> NullResults, error |-> "",
     userTier |-> FREE, analysesRemaining |-> InitialAnalyses, isLoggedIn |-> FALSE]

Views == {"input", "results", "spec", "pricing", "auth", "payment"}

\* ProcessDisabled without the isProcessing test
ProcessDisabled_IgnoresBusy(st, busy) == Trim(st.inputText) = << >>

\* disabled={isProcessing || !state.inputText.trim()}
ProcessDisabled(st, busy) == busy \/ Trim(st.inputText) = << >>

\* handleProcess is stopped by the quota test
QuotaExhausted(st) == st.userTier = FREE /\ st.analysesRemaining <= 0

\* the updater of the try block
RunSucceeded(prev, results) ==
    [prev EXCEPT !.view = "results",
                 !.results = results,
                 !.analysesRemaining = IF prev.userTier = FREE THEN @ - 1 ELSE @]

\* RunFailed going back to a fresh input view
RunFailed_StartsOver(prev) ==
    [prev EXCEPT !.error = FailureMessage, !.view = "input", !.results = NullResults]

\* the updater of the catch block
RunFailed(prev) == [prev EXCEPT !.error = FailureMessage]

\* Layout: which of its buttons can be clicked.  Insights is disabled on the
\* input view only; Login is rendered while not logged in.
NavEnabled(st, v) ==
    CASE v = "input" -> TRUE
      [] v = "results" -> st.view # "input"
      [] v = "spec" -> TRUE
      [] v = "auth" -> ~st.isLoggedIn
      [] OTHER -> FALSE

(***************************************************************************)
(* The run of one request                                                  *)
(***************************************************************************)
NoCalls == [extract |-> 0, crossref |-> 0, verify |-> 0, review |-> 0, bib |-> 0,
            ask |-> 0]
NoUpstream == [extract |-> "", review |-> "", bib |-> ""]
NoFuseIn == [imp |-> "server", net |-> "none", chunks |-> 0, text |-> TxtPlain]
NoFuseOut == [done |-> FALSE, status |-> PENDING, confidence |-> 0]

\* req.body is undefined ("missing"), an object without the field the handler
\* reads ("notext": no `text` for /verify, no `prompt` for /ask) or an object
\* with it ("text").  /verify runs the pipeline on an object without a text
\* as on one with a text: the prompt template prints the word "undefined".
Requests ==
    [method : {"POST", "GET"}, body : {"missing", "notext", "text"}]
DirectCall == [method |-> "POST", body |-> "text"]

Init ==
    /\ impl \in {"server", "client", "legacy"}
    /\ aiReady \in (IF impl = "client" THEN BOOLEAN ELSE {TRUE})
    /\ req \in (IF impl = "server" THEN Requests ELSE {DirectCall})
    /\ pc = "request"
    /\ extracted = << >>
    /\ citations = << >>
    /\ fused = << >>
    /\ lookups = << >>
    /\ reviews = << >>
    /\ upstream = NoUpstream
    /\ calls = NoCalls
    /\ thrown = ""
    /\ outcome = NoOutcome
    /\ fuseIn = NoFuseIn
    /\ fuseOut = NoFuseOut
    /\ doiIn = NoDoiIn /\ doiOut = NoDoiOut
    /\ metaIn = NoMetaIn /\ metaOut = NoMetaOut
    /\ state = InitialState /\ isProcessing = FALSE /\ pending = 0

\* The pipeline rejects with `cause` and the caller is answered.
Fail(cause) ==
    /\ thrown' = cause
    /\ pc' = "done"
    /\ outcome' = Rejected(impl, cause)

\* api/verify.ts handler, up to the call of parseAndVerifyCitations
HandlerEntry ==
    /\ pc = "request"
    /\ impl = "server"
    /\ IF req.method # "POST"
       THEN /\ outcome' = [kind |-> "error", status |-> 405,
                           error |-> "Only POST allowed", result |-> NoResult]
            /\ pc' = "done"
            /\ thrown' = thrown
       ELSE IF req.body = "missing"
            THEN Fail("TypeError: cannot destructure req.body")
            ELSE /\ pc' = "extract"
                 /\ UNCHANGED <<thrown, outcome>>
    /\ UNCHANGED <<impl, aiReady, req, extracted, citations, fused, lookups,
                   reviews, upstream, calls, fuseIn, fuseOut,
                   doiIn, doiOut, metaIn, metaOut, appVars>>

\* AskResponse without the method test
AskResponse_NoMethodCheck(r, gen) ==
    IF r.body = "missing" THEN [status |-> 500, error |-> "API error"]
    ELSE IF r.body = "notext" THEN [status |-> 400, error |-> "Prompt required"]
    ELSE IF gen = "throw" THEN [status |-> 500, error |-> "API error"]
    ELSE [status |-> 200, error |-> ""]

\* api/ask.ts handler: the response to request r when the generative call,
\* if it is made, ends as gen says
AskResponse(r, gen) ==
    IF r.method # "POST" THEN [status |-> 405, error |-> "Only POST allowed"]
    ELSE IF r.body = "missing" THEN [status |-> 500, error |-> "API error"]
    ELSE IF r.body = "notext" THEN [status |-> 400, error |-> "Prompt required"]
    ELSE IF gen = "throw" THEN [status |-> 500, error |-> "API error"]
    ELSE [status |-> 200, error |-> ""]

\* api/ask.ts handler.  The generative call is made when the response is not
\* decided before it: 200, or the 500 of a call that threw.
AskHandler ==
    /\ pc = "request"
    /\ impl = "ask"
    /\ \E gen \in {"none", "throw", "ok"} :
        LET resp == AskResponse(req, gen)
        IN  /\ (gen = "none") <=> (AskResponse(req, "ok").status # 200)
            /\ calls' = [calls EXCEPT !.ask = IF gen = "none" THEN @ ELSE @ + 1]
            /\ thrown' = (IF resp.status = 500
                          THEN (IF gen = "throw" THEN "generateContent failed"
                                ELSE "TypeError: cannot destructure req.body")
                          ELSE thrown)
            /\ outcome' = [kind |-> IF resp.status = 200 THEN "text" ELSE "error",
                           status |-> resp.status, error |-> resp.error,
                           result |-> NoResult]
            /\ pc' = "done"
    /\ UNCHANGED <<impl, aiReady, req, extracted, citations, fused, lookups,
                   reviews, upstream, fuseIn, fuseOut,
                   doiIn, doiOut, metaIn, metaOut, appVars>>

\* The services' parseAndVerifyCitations, up to the extraction call
ServiceEntry ==
    /\ pc = "request"
    /\ impl # "server"
    /\ IF impl = "client" /\ ~aiReady
       THEN Fail("Google Gemini API not initialized")
       ELSE /\ pc' = "extract"
            /\ UNCHANGED <<thrown, outcome>>
    /\ UNCHANGED <<impl, aiReady, req, extracted, citations, fused, lookups,
                   reviews, upstream, calls, fuseIn, fuseOut,
                   doiIn, doiOut, metaIn, metaOut, appVars>>

\* The extraction call and JSON.parse of its text.  "notarray" is a parsed
\* value that the for...of loop cannot iterate (an object, null).
ExtractOutcomes == {"throw", "malformed", "notarray", "ok"}

Extract ==
    /\ pc = "extract"
    /\ \E o \in ExtractOutcomes, xs \in SeqsUpTo(Candidates, MaxItems) :
        /\ o # "ok" => xs = << >>
        /\ upstream' = [upstream EXCEPT !.extract = o]
        /\ calls' = [calls EXCEPT !.extract = @ + 1]
        /\ IF o = "ok"
           THEN /\ extracted' = xs
                /\ pc' = "verify"
                /\ UNCHANGED <<thrown, outcome>>
           ELSE /\ extracted' = extracted
                /\ Fail(CASE o = "throw" -> "extraction call failed"
                          [] o = "malformed" -> "SyntaxError: extraction"
                          [] OTHER -> "TypeError: extracted is not iterable")
    /\ UNCHANGED <<impl, aiReady, req, citations, fused, lookups, reviews,
                   fuseIn, fuseOut,
                   doiIn, doiOut, metaIn, metaOut, appVars>>

\* crossrefData = doi ? await fetchCrossrefMetadata(doi) : null
LookupData(net) ==
    IF net = "none" THEN NoRecord ELSE FetchCrossrefMetadata(net).data
LookupThrew(net) ==
    net # "none" /\ FetchCrossrefMetadata(net).threw

\* LoopDone holding as soon as one item has been processed
LoopDone_Streaming == Len(extracted) = 0 \/ Len(citations) >= 1

\* for (const item of extracted) has run out of items
LoopDone == Len(citations) = Len(extracted)

\* One iteration of the verification loop
VerifyItem ==
    /\ pc = "verify"
    /\ Len(citations) < Len(extracted)
    /\ LET item == extracted[Len(citations) + 1]
           doi == ExtractDoi(impl, item)
       IN  \E net \in LookupOutcomes \cup {"none"}, v \in {"throw", "ok"},
              n \in 0..MaxChunks, text \in VerifyTexts, g \in GeneratedIds :
            /\ (net = "none") <=> ~ShouldLookup(doi)
            /\ (v = "throw" \/ LookupThrew(net)) => (n = 0 /\ text = TxtPlain)
            /\ impl = "legacy" => n = 0
            /\ (impl = "legacy" \/ item.id # "" \/ v = "throw" \/ LookupThrew(net))
                   => g = "g1"
            /\ lookups' = Append(lookups, net)
            /\ IF LookupThrew(net)
               THEN /\ v = "ok"
                    /\ calls' = [calls EXCEPT !.crossref = @ + 1]
                    /\ Fail("Crossref lookup rejected")
                    /\ UNCHANGED <<citations, fused>>
               ELSE /\ calls' = [calls EXCEPT
                                   !.crossref = IF net = "none" THEN @ ELSE @ + 1,
                                   !.verify = @ + 1]
                    /\ IF v = "throw"
                       THEN /\ Fail("verification call failed")
                            /\ UNCHANGED <<citations, fused>>
                       ELSE /\ citations' = Append(citations,
                                   MakeCitation(impl, item, doi, LookupData(net),
                                                n, text, g))
                            /\ fused' = citations'
                            /\ UNCHANGED <<pc, thrown, outcome>>
    /\ UNCHANGED <<impl, aiReady, req, extracted, reviews, upstream,
                   fuseIn, fuseOut,
                   doiIn, doiOut, metaIn, metaOut, appVars>>

\* services/geminiService.ts: the review call, JSON.parse and citations.map
ReviewOutcomes == {"throw", "malformed", "notarray", "ok"}

ReviewPass ==
    /\ pc = "verify"
    /\ impl = "client"
    /\ LoopDone
    /\ \E o \in ReviewOutcomes, rs \in SeqsUpTo(ReviewEntries, MaxReviews) :
        /\ o # "ok" => rs = << >>
        /\ upstream' = [upstream EXCEPT !.review = o]
        /\ calls' = [calls EXCEPT !.review = @ + 1]
        /\ reviews' = rs
        /\ CASE o = "throw" ->
                  /\ Fail("review call failed")
                  /\ UNCHANGED citations
             [] o = "malformed" ->
                  /\ Fail("SyntaxError: review")
                  /\ UNCHANGED citations
             [] o = "notarray" /\ citations # << >> ->
                  /\ Fail("TypeError: reviews.find is not a function")
                  /\ UNCHANGED citations
             [] OTHER ->
                  /\ citations' = ApplyReviews(rs, citations)
                  /\ pc' = "finish"
                  /\ UNCHANGED <<thrown, outcome>>
    /\ UNCHANGED <<impl, aiReady, req, extracted, fused, lookups,
                   fuseIn, fuseOut,
                   doiIn, doiOut, metaIn, metaOut, appVars>>

\* The bibliography step and the return statement
BibOutcomes == {"none", "throw", "malformed", "ok"}

Finish ==
    /\ IF impl = "client" THEN pc = "finish"
       ELSE pc = "verify" /\ LoopDone
    /\ \E o \in BibOutcomes, obj \in BibObjects :
        /\ (o = "none") <=> (Len(VerifiedOf(citations)) = 0)
        /\ o # "ok" => obj = BibNoKeys
        /\ upstream' = [upstream EXCEPT !.bib = o]
        /\ calls' = [calls EXCEPT !.bib = IF o = "none" THEN @ ELSE @ + 1]
        /\ CASE o = "throw" -> Fail("bibliography call failed")
             [] o = "malformed" -> Fail("SyntaxError: bibliography")
             [] OTHER ->
                  /\ pc' = "done"
                  /\ thrown' = thrown
                  /\ outcome' = Returned(impl,
                        MakeResult(impl, citations,
                            IF o = "none" THEN NoBib
                            ELSE [present |-> TRUE, obj |-> obj]))
    /\ UNCHANGED <<impl, aiReady, req, extracted, citations, fused, lookups,
                   reviews, fuseIn, fuseOut,
                   doiIn, doiOut, metaIn, metaOut, appVars>>

Next ==
    \/ HandlerEntry
    \/ ServiceEntry
    \/ Extract
    \/ VerifyItem
    \/ ReviewPass
    \/ Finish

Spec == Init /\ [][Next]_vars

(***************************************************************************)
(* The two HTTP endpoints, /verify and /ask, over every request            *)
(***************************************************************************)
InitHttp ==
    /\ impl \in {"server", "ask"}
    /\ aiReady = TRUE
    /\ req \in Requests
    /\ pc = "request"
    /\ extracted = << >> /\ citations = << >> /\ fused = << >>
    /\ lookups = << >> /\ reviews = << >>
    /\ upstream = NoUpstream /\ calls = NoCalls /\ thrown = ""
    /\ outcome = NoOutcome
    /\ fuseIn = NoFuseIn /\ fuseOut = NoFuseOut
    /\ doiIn = NoDoiIn /\ doiOut = NoDoiOut
    /\ metaIn = NoMetaIn /\ metaOut = NoMetaOut
    /\ state = InitialState /\ isProcessing = FALSE /\ pending = 0

NextHttp ==
    \/ HandlerEntry
    \/ AskHandler
    \/ Extract
    \/ VerifyItem
    \/ Finish

SpecHttp == InitHttp /\ [][NextHttp]_vars

(***************************************************************************)
(* The fusion step alone, over every input                                 *)
(***************************************************************************)
InitFuse ==
    /\ impl = "server" /\ aiReady = TRUE /\ req = DirectCall /\ pc = "fuse"
    /\ extracted = << >> /\ citations = << >> /\ fused = << >>
    /\ lookups = << >> /\ reviews = << >>
    /\ upstream = NoUpstream /\ calls = NoCalls /\ thrown = ""
    /\ outcome = NoOutcome
    /\ fuseIn \in [imp : {"server", "client", "legacy"},
                   net : LookupOutcomes \cup {"none"},
                   chunks : 0..MaxChunks,
                   text : AllTexts]
    /\ fuseOut = NoFuseOut
    /\ doiIn = NoDoiIn /\ doiOut = NoDoiOut
    /\ metaIn = NoMetaIn /\ metaOut = NoMetaOut
    /\ state = InitialState /\ isProcessing = FALSE /\ pending = 0

FuseStep ==
    /\ pc = "fuse"
    /\ ~fuseOut.done
    /\ LET f == Fuse(fuseIn.imp, LookupData(fuseIn.net).found,
                     fuseIn.chunks, fuseIn.text)
       IN  fuseOut' = [done |-> TRUE, status |-> f.status,
                       confidence |-> f.confidence]
    /\ UNCHANGED <<impl, aiReady, req, pc, extracted, citations, fused, lookups,
                   reviews, upstream, calls, thrown, outcome, fuseIn,
                   doiIn, doiOut, metaIn, metaOut, appVars>>

NextFuse == FuseStep

SpecFuse == InitFuse /\ [][NextFuse]_vars

(***************************************************************************)
(* Identifier extraction alone, over every input                           *)
(***************************************************************************)
InitDoi ==
    /\ impl = "server" /\ aiReady = TRUE /\ req = DirectCall /\ pc = "doi"
    /\ extracted = << >> /\ citations = << >> /\ fused = << >>
    /\ lookups = << >> /\ reviews = << >>
    /\ upstream = NoUpstream /\ calls = NoCalls /\ thrown = ""
    /\ outcome = NoOutcome
    /\ fuseIn = NoFuseIn /\ fuseOut = NoFuseOut
    /\ doiIn \in DoiInputs
    /\ doiOut = NoDoiOut
    /\ metaIn = NoMetaIn /\ metaOut = NoMetaOut
    /\ state = InitialState /\ isProcessing = FALSE /\ pending = 0

\* The first statements of one loop iteration, up to the choice to look up
DoiStep ==
    /\ pc = "doi"
    /\ ~doiOut.done
    /\ LET doi == ExtractDoi(doiIn.imp, DoiItem(doiIn))
       IN  doiOut' = [done |-> TRUE, doi |-> doi, lookup |-> ShouldLookup(doi)]
    /\ UNCHANGED <<impl, aiReady, req, pc, extracted, citations, fused, lookups,
                   reviews, upstream, calls, thrown, outcome, fuseIn, fuseOut,
                   doiIn, metaIn, metaOut, appVars>>

NextDoi == DoiStep

SpecDoi == InitDoi /\ [][NextDoi]_vars

(***************************************************************************)
(* The metadata merge alone, over every input                              *)
(***************************************************************************)
InitMeta ==
    /\ impl = "server" /\ aiReady = TRUE /\ req = DirectCall /\ pc = "meta"
    /\ extracted = << >> /\ citations = << >> /\ fused = << >>
    /\ lookups = << >> /\ reviews = << >>
    /\ upstream = NoUpstream /\ calls = NoCalls /\ thrown = ""
    /\ outcome = NoOutcome
    /\ fuseIn = NoFuseIn /\ fuseOut = NoFuseOut
    /\ doiIn = NoDoiIn /\ doiOut = NoDoiOut
    /\ metaIn \in [imp : {"server", "client", "legacy"}, item : MetaItems,
                   cr : MetaRecords]
    /\ metaOut = NoMetaOut
    /\ state = InitialState /\ isProcessing = FALSE /\ pending = 0

MetaStep ==
    /\ pc = "meta"
    /\ ~metaOut.done
    /\ LET m == ParsedMetadata(metaIn.imp, metaIn.item, metaIn.cr)
       IN  metaOut' = [done |-> TRUE, title |-> m.title, authors |-> m.authors,
                       year |-> m.year]
    /\ UNCHANGED <<impl, aiReady, req, pc, extracted, citations, fused, lookups,
                   reviews, upstream, calls, thrown, outcome, fuseIn, fuseOut,
                   doiIn, doiOut, metaIn, appVars>>

NextMeta == MetaStep

SpecMeta == InitMeta /\ [][NextMeta]_vars

(***************************************************************************)
(* App: the handlers of the component.  A handler runs on the state of the *)
(* latest render; the two updates a handler makes in a row are one render. *)
(***************************************************************************)
pipeVars == <<impl, aiReady, req, pc, extracted, citations, fused, lookups,
              reviews, upstream, calls, thrown, outcome, fuseIn, fuseOut,
              doiIn, doiOut, metaIn, metaOut>>

InitApp ==
    /\ impl = "client" /\ aiReady = TRUE /\ req = DirectCall /\ pc = "app"
    /\ extracted = << >> /\ citations = << >> /\ fused = << >>
    /\ lookups = << >> /\ reviews = << >>
    /\ upstream = NoUpstream /\ calls = NoCalls /\ thrown = ""
    /\ outcome = NoOutcome
    /\ fuseIn = NoFuseIn /\ fuseOut = NoFuseOut
    /\ doiIn = NoDoiIn /\ doiOut = NoDoiOut
    /\ metaIn = NoMetaIn /\ metaOut = NoMetaOut
    /\ state = InitialState /\ isProcessing = FALSE /\ pending = 0

\* Layout's onViewChange(v), from the logo, the three tabs and Login
OnViewChange ==
    /\ pc = "app"
    /\ \E v \in Views :
        /\ NavEnabled(state, v)
        /\ state' = [state EXCEPT !.view = v]
    /\ UNCHANGED <<pipeVars, isProcessing, pending>>

\* the textarea's onChange
OnInputChange ==
    /\ pc = "app"
    /\ state.view = "input"
    /\ \E t \in InputTexts : state' = [state EXCEPT !.inputText = t]
    /\ UNCHANGED <<pipeVars, isProcessing, pending>>

\* handleProcess up to its await
HandleProcess ==
    /\ pc = "app"
    /\ state.view = "input"
    /\ ~ProcessDisabled(state, isProcessing)
    /\ IF Trim(state.inputText) = << >>
       THEN UNCHANGED appVars
       ELSE IF QuotaExhausted(state)
            THEN /\ state' = [state EXCEPT !.view = "pricing", !.error = LimitMessage]
                 /\ UNCHANGED <<isProcessing, pending>>
            ELSE /\ pending < MaxPending
                 /\ isProcessing' = TRUE
                 /\ state' = [state EXCEPT !.error = ""]
                 /\ pending' = pending + 1
    /\ UNCHANGED pipeVars

\* parseAndVerifyCitations resolves: the try block's update, then finally
RunResolves ==
    /\ pc = "app"
    /\ pending > 0
    /\ state' = RunSucceeded(state, SomeResults)
    /\ isProcessing' = FALSE
    /\ pending' = pending - 1
    /\ UNCHANGED pipeVars

\* parseAndVerifyCitations rejects: the catch block's update, then finally
RunRejects ==
    /\ pc = "app"
    /\ pending > 0
    /\ state' = RunFailed(state)
    /\ isProcessing' = FALSE
    /\ pending' = pending - 1
    /\ UNCHANGED pipeVars

\* handleUpgradeClick, from either of its buttons on the input view
HandleUpgradeClick ==
    /\ pc = "app"
    /\ state.view = "input"
    /\ state' = [state EXCEPT !.view = IF ~state.isLoggedIn THEN "auth" ELSE "pricing"]
    /\ UNCHANGED <<pipeVars, isProcessing, pending>>

\* handleLogin
HandleLogin ==
    /\ pc = "app"
    /\ state.view = "auth"
    /\ state' = [state EXCEPT !.isLoggedIn = TRUE, !.view = "pricing"]
    /\ UNCHANGED <<pipeVars, isProcessing, pending>>

\* the pricing view's button to the payment view
ChoosePlan ==
    /\ pc = "app"
    /\ state.view = "pricing"
    /\ state' = [state EXCEPT !.view = "payment"]
    /\ UNCHANGED <<pipeVars, isProcessing, pending>>

\* the payment view's Cancel
CancelPayment ==
    /\ pc = "app"
    /\ state.view = "payment"
    /\ state' = [state EXCEPT !.view = "pricing"]
    /\ UNCHANGED <<pipeVars, isProcessing, pending>>

\* handlePaymentConfirm
HandlePaymentConfirm ==
    /\ pc = "app"
    /\ state.view = "payment"
    /\ state' = [state EXCEPT !.userTier = PRO, !.view = "input"]
    /\ UNCHANGED <<pipeVars, isProcessing, pending>>

\* "Run New Analysis" of the results view, rendered with results only
RunNewAnalysis ==
    /\ pc = "app"
    /\ state.view = "results" /\ state.results.present
    /\ state' = [state EXCEPT !.view = "input"]
    /\ UNCHANGED <<pipeVars, isProcessing, pending>>

NextApp ==
    \/ OnViewChange
    \/ OnInputChange
    \/ HandleProcess
    \/ RunResolves
    \/ RunRejects
    \/ HandleUpgradeClick
    \/ HandleLogin
    \/ ChoosePlan
    \/ CancelPayment
    \/ HandlePaymentConfirm
    \/ RunNewAnalysis

SpecApp == InitApp /\ [][NextApp]_vars

\* The pipeline's promise settles: every call it awaits returns or throws.
SpecAppFair == SpecApp /\ WF_vars(RunResolves \/ RunRejects)

(***************************************************************************)
(* Properties                                                              *)
(***************************************************************************)
Done == pc = "done"
HasResult == pc = "done" /\ outcome.kind = "result"
Final == outcome.result.citations

\* The evidence a pushed citation records about itself
HadRegistry(j) == lookups[j] = "record"
HadGrounding(c) ==
    \E k \in 1..Len(c.verificationSource) :
        c.verificationSource[k] \in {"+ Web Search", "+ Web Scholarly Index"}
CountOf(cs, S) == Cardinality({i \in 1..Len(cs) : cs[i].status \in S})

\* Verification texts that carry 'hallucinated', 'fabricated' or 'fake'
MarkedTexts == {TxtFake, TxtFabricated, TxtHallucinated, TxtVerifiedFake,
                TxtRefuted}

\* C1: in the server and in the client pipeline the fusion step gives, for the
\* three booleans registryMatch, groundingMatch and fabricationSignal,
\* (F,F,F) -> (UNVERIFIED, 0.5); exactly one of the first two and no
\* fabrication -> (PARTIAL_MATCH, 0.75); both and no fabrication ->
\* (VERIFIED, 0.99); fabrication -> (HALLUCINATION, 0.95) whatever the others.
C1_FusionTable ==
    (fuseOut.done /\ fuseIn.imp \in {"server", "client"}) =>
        LET registryMatch == fuseIn.net = "record"
            groundingMatch == fuseIn.chunks >= 1
            fabricationSignal == fuseIn.text \in MarkedTexts
            got == <<fuseOut.status, fuseOut.confidence>>
        IN  got = CASE fabricationSignal -> <<HALLUCINATION, 95>>
                    [] ~fabricationSignal /\ registryMatch /\ groundingMatch
                         -> <<VERIFIED, 99>>
                    [] ~fabricationSignal /\ (registryMatch # groundingMatch)
                         -> <<PARTIAL_MATCH, 75>>
                    [] OTHER -> <<UNVERIFIED, 50>>

\* two matching signals and the word "FABRICATED": HALLUCINATION wins
C1_Witness ==
    /\ fuseOut.done /\ fuseIn.imp = "client"
    /\ fuseIn.net = "record" /\ fuseIn.chunks = 2
    /\ fuseIn.text = TxtFabricated
    /\ fuseOut.status = HALLUCINATION

\* C2: every citation that is VERIFIED in a returned result had both a
\* registry record and at least one grounding reference.  (Stated for the
\* server and the client pipeline; the earlier client service breaks it
\* already in its fusion step.)
C2_TwoSourceRule ==
    (HasResult /\ impl # "legacy") =>
        \A i \in 1..Len(Final) :
            Final[i].status = VERIFIED =>
                HadRegistry(i) /\ HadGrounding(fused[i])

\* C3: every status in a returned result is one of VERIFIED, PARTIAL_MATCH,
\* UNVERIFIED, HALLUCINATION.
C3_StatusInEnum ==
    HasResult =>
        \A i \in 1..Len(Final) :
            Final[i].status \in {VERIFIED, PARTIAL_MATCH, UNVERIFIED, HALLUCINATION}

\* C4: the summary of a returned result counts its final citations: total is
\* their number, verified the VERIFIED ones, hallucinated the HALLUCINATION
\* ones, unverified the UNVERIFIED or PARTIAL_MATCH ones.
C4_SummaryInvariant ==
    HasResult =>
        LET sm == outcome.result.summary
        IN  /\ Final = citations
            /\ sm.total = Len(Final)
            /\ sm.verified = CountOf(Final, {VERIFIED})
            /\ sm.hallucinated = CountOf(Final, {HALLUCINATION})
            /\ sm.unverified = CountOf(Final, {UNVERIFIED, PARTIAL_MATCH})

\* a client result after a review changed a status, with a PARTIAL_MATCH in it
C4_Witness ==
    /\ HasResult /\ impl = "client"
    /\ Len(Final) = 2
    /\ Final[1].status = PARTIAL_MATCH
    /\ Final[2] # fused[2]
    /\ outcome.result.summary.unverified = 1

\* C5: multiStyleBib is present iff summary.verified > 0, and when present it
\* has exactly the keys apa, mla, chicago, ieee, each a non-empty string.
C5_BibliographyPresence ==
    HasResult =>
        LET bib == outcome.result.multiStyleBib
        IN  /\ bib.present <=> outcome.result.summary.verified > 0
            /\ bib.present =>
                  /\ bib.obj.keys = BibKeys
                  /\ \A k \in BibKeys : bib.obj.val[k] # ""

\* C6: when the review call fails or answers something that is not the
\* expected array, the run is not rejected for it and the citations stay as
\* fused.
C6_ReviewFailureNonFatal ==
    upstream.review \in {"throw", "malformed", "notarray"} =>
        /\ citations = fused
        /\ thrown = ""

\* C7: when a citation is VERIFIED and the bibliography call fails or answers
\* malformed text, the caller still gets the citations and the summary,
\* without multiStyleBib.
C7_BibliographyFailureNonFatal ==
    (Done /\ upstream.bib \in {"throw", "malformed"}) =>
        /\ outcome.kind = "result"
        /\ Final = citations
        /\ ~outcome.result.multiStyleBib.present

\* C8: a failed extraction ends the request with one generic failure, no
\* citation and no further call; and a caller gets either a complete result
\* or a single error, never part of a result.
C8_ExtractionFailureFatal ==
    /\ upstream.extract \in {"throw", "malformed", "notarray"} =>
          /\ Done /\ outcome.kind = "error"
          /\ outcome.result = NoResult /\ citations = << >>
          /\ impl = "server" =>
                outcome.status = 500 /\ outcome.error = "Verification failed"
          /\ impl # "server" => thrown # "" /\ outcome.error = thrown
          /\ calls = [NoCalls EXCEPT !.extract = 1]
    /\ Done =>
          /\ outcome.kind \in {"result", "error"}
          /\ outcome.kind = "error" => outcome.result = NoResult
          /\ outcome.kind = "result" =>
                /\ thrown = ""
                /\ Len(Final) = Len(extracted)
    /\ ~Done => outcome = NoOutcome

\* the handler has answered a request whose extraction text did not parse
C8_Witness ==
    /\ Done /\ impl = "server" /\ req.method = "POST"
    /\ upstream.extract = "malformed"
    /\ outcome.status = 500

C10_ReviewFrame ==
    (impl = "client" /\ pc \in {"finish", "done"} /\ upstream.review = "ok") =>
        \A i \in 1..Len(citations) :
            (\A k \in 1..Len(reviews) : reviews[k].id # fused[i].id) =>
                citations[i] = fused[i]

\* the review changed the first citation and named no id of the second
C10_Witness ==
    /\ impl = "client" /\ pc = "finish" /\ upstream.review = "ok"
    /\ Len(citations) = 2 /\ Len(reviews) = 2
    /\ citations[1] # fused[1]
    /\ \A k \in 1..Len(reviews) : reviews[k].id # fused[2].id
    /\ citations[2] = fused[2]

\* A sequence p is a prefix of s
IsPrefix(p, s) == Len(p) <= Len(s) /\ SubSeq(s, 1, Len(p)) = p
\* The review pass has been applied in this run
Reviewed == impl = "client" /\ calls.review = 1 /\ upstream.review \in {"ok", "notarray"}
                /\ pc \in {"finish", "done"} /\ thrown \notin {"review call failed",
                       "SyntaxError: review", "TypeError: reviews.find is not a function"}

\* C11: the review only appends to an explanation: the explanation of every
\* citation after the review begins with the whole explanation it had before,
\* and where the review changed the status it is that explanation followed by
\* the review marker and the review's reasoning.
C11_ExplanationAppendOnly ==
    Reviewed =>
        /\ Len(citations) = Len(fused)
        /\ \A i \in 1..Len(citations) :
              /\ IsPrefix(fused[i].explanation, citations[i].explanation)
              /\ citations[i].status # fused[i].status =>
                    \E k \in 1..Len(reviews) :
                        /\ reviews[k].id = fused[i].id
                        /\ citations[i].explanation =
                              fused[i].explanation \o ReviewMarker \o reviews[k].reasoning
                        /\ Len(citations[i].explanation) > Len(fused[i].explanation)

\* A returned citation whose status the review changed and whose explanation
\* is the verifier's text followed by the reasoning
C11_Witness ==
    /\ HasResult /\ Reviewed
    /\ \E i \in 1..Len(Final) :
          /\ Final[i].status # fused[i].status
          /\ fused[i].explanation = TxtRefuted
          /\ Final[i].explanation = TxtRefuted \o ReviewMarker \o Reasoning

C13_PhaseOrdering ==
    impl = "client" =>
        /\ calls.review \in {0, 1} /\ calls.bib \in {0, 1}
        /\ calls.review = 1 =>
              /\ Len(fused) = Len(extracted)
              /\ calls.verify = Len(extracted)
        /\ pc = "verify" => calls.review = 0 /\ calls.bib = 0
        /\ calls.bib = 1 =>
              /\ Reviewed
              /\ citations = ApplyReviews(reviews, fused)
              /\ \E i \in 1..Len(citations) : citations[i].status = VERIFIED
        /\ (Done /\ Reviewed /\ calls.bib = 0) =>
              \A i \in 1..Len(citations) : citations[i].status # VERIFIED

\* Two items were fused, the review then raised one of them to VERIFIED, and
\* the bibliography call that followed was made for it alone
C13_Witness ==
    /\ HasResult /\ impl = "client" /\ Len(extracted) = 2
    /\ calls.verify = 2 /\ calls.review = 1 /\ calls.bib = 1
    /\ \A i \in 1..2 : fused[i].status # VERIFIED
    /\ Len(VerifiedOf(Final)) = 1

\* C14: the citations of a returned result are the extracted candidates, one
\* entry each and in extraction order: the i-th citation carries the i-th
\* candidate's rawText.  Nothing is reordered, dropped or merged, by the
\* loop or by the review pass.
C14_OrderAndCardinality ==
    /\ HasResult =>
          /\ Len(Final) = Len(extracted)
          /\ \A i \in 1..Len(Final) : Final[i].rawText = extracted[i].rawText
    /\ pc = "finish" =>
          /\ Len(citations) = Len(extracted)
          /\ \A i \in 1..Len(citations) : citations[i].rawText = extracted[i].rawText

\* A reviewed result for two candidates with the same id and the same text:
\* both are kept, and the review changed them
C14_Witness ==
    /\ HasResult /\ Reviewed /\ Len(extracted) = 2 /\ Len(reviews) >= 1
    /\ extracted[1] = extracted[2] /\ extracted[1].id = "a"
    /\ Len(Final) = 2
    /\ Final[1].status # fused[1].status
    /\ Final[1].rawText = RawWithDoi /\ Final[2].rawText = RawWithDoi

\* C15: the /verify handler answers a POST whose body is missing, or has no
\* text field, with status 400 and without running the pipeline.
C15_MalformedBodyIs400 ==
    (impl = "server" /\ req.method = "POST" /\ req.body \in {"missing", "notext"}) =>
        /\ calls = NoCalls
        /\ Done => outcome.status = 400

HttpStatuses == {200, 400, 405, 500}

\* C16: each handler answers a request whose method is not POST with 405 and
\* makes no call to the generative service for it; every request is answered
\* once, never a second time, and the status of the answer is 200, 400, 405
\* or 500.
C16_OneResponsePerRequest ==
    /\ [](/\ pc # "done" => (outcome = NoOutcome /\ ENABLED NextHttp)
          /\ Done => outcome.status \in HttpStatuses
          /\ req.method # "POST" =>
                /\ calls = NoCalls
                /\ Done => (outcome.status = 405 /\ outcome.error = "Only POST allowed"))
    /\ [][outcome # NoOutcome => outcome' = outcome]_vars

\* /ask has answered a GET that carried a prompt with 405 and made no call
C16_Witness ==
    /\ Done /\ impl = "ask" /\ req = [method |-> "GET", body |-> "text"]
    /\ outcome.status = 405 /\ calls.ask = 0

\* C17: a missing credential is a configuration error raised when the client
\* is constructed; no call of parseAndVerifyCitations, and no handler
\* request, is answered with an error because the credential is absent.
C17_CredentialErrorAtStartup ==
    ~aiReady => ~(Done /\ outcome.kind = "error"
                      /\ thrown = "Google Gemini API not initialized")

\* C18: the citations of a result returned by the server or the client
\* pipeline have pairwise different ids when the extraction supplied an id for
\* every candidate, repeated ids included, so that one review entry changes
\* at most one citation.
C18_IdsUnique ==
    (HasResult /\ impl # "legacy"
               /\ \A k \in 1..Len(extracted) : extracted[k].id # "") =>
        /\ \A i, j \in 1..Len(Final) : i # j => Final[i].id # Final[j].id
        /\ Reviewed =>
              \A k \in 1..Len(reviews) :
                  Cardinality({i \in 1..Len(Final) :
                                 /\ FindReview(reviews, fused[i]) = k
                                 /\ Final[i] # fused[i]}) <= 1

\* The text before the DOI ends where a word boundary can stand
PreDelimits(pre) == pre = << >> \/ ~IsWordChar(pre[Len(pre)])
\* No letter, digit or underscore of the text after the DOI is reached by the
\* suffix of the pattern: a blank or one of " & ' < > comes before it
PostDelimits(post) ==
    \A k \in 1..Len(post) :
        IsWordChar(post[k]) => \E j \in 1..(k - 1) : ~SuffixChar(post[j])

\* C19 as stated: a supplied doi is used as is, the text not being scanned;
\* otherwise a text that contains 10.1234/abcd.5 anywhere (and no DOI before
\* it) yields exactly that substring; without a match the identifier is
\* absent and no lookup is made.
C19_EmbeddedAnywhere ==
    doiOut.done =>
        /\ doiIn.supplied # << >> => doiOut.doi = doiIn.supplied
        /\ (doiIn.supplied = << >> /\ doiIn.core = Doi5 /\ doiIn.pre # PreWithFirst)
              => doiOut.doi = Doi5
        /\ (doiIn.supplied = << >> /\ doiIn.core = << >> /\ doiIn.pre # PreWithFirst)
              => doiOut.doi = << >>
        /\ doiOut.lookup <=> doiOut.doi # << >>

\* C19, amended: a supplied doi is used as is, the text not being scanned;
\* otherwise the leftmost match of the pattern is used, taken up to the last
\* word boundary before the next blank or quote character.  A text that
\* contains 10.1234/abcd.5 yields exactly that substring when the DOI is not
\* preceded by a letter, digit or underscore and no such character follows
\* it before the next blank or quote character; preceded by one it is not
\* found, followed by one the match runs on over it.  A DOI earlier in the
\* text wins.  Without a match the identifier is absent, and the registry
\* lookup is made exactly when an identifier is present.
C19_IdentifierExtraction ==
    doiOut.done =>
        /\ doiIn.supplied # << >> => doiOut.doi = doiIn.supplied
        /\ doiIn.supplied = << >> =>
              IF doiIn.pre = PreWithFirst THEN doiOut.doi = DoiFirst
              ELSE IF doiIn.core = << >> THEN doiOut.doi = << >>
              ELSE IF ~PreDelimits(doiIn.pre) THEN doiOut.doi = << >>
              ELSE IF PostDelimits(doiIn.post) THEN doiOut.doi = Doi5
              ELSE /\ Len(doiOut.doi) > Len(Doi5)
                   /\ IsPrefix(Doi5, doiOut.doi)
        /\ doiOut.lookup <=> doiOut.doi # << >>

\* The DOI stands in brackets at the end of a sentence and is found exactly
C19_Witness ==
    /\ doiOut.done /\ doiIn.supplied = << >>
    /\ doiIn.pre = <<"(">> /\ doiIn.core = Doi5 /\ doiIn.post = <<")", ".">>
    /\ doiOut.doi = Doi5 /\ doiOut.lookup

\* C20: in the server and the client pipeline the registry's metadata comes
\* first.  For each of title, authors and year the field of parsedMetadata is
\* the registry record's value when the lookup gave a record that holds it
\* (the first title, when not empty; the author list, each author printed as
\* given name, blank, family name, a missing given name printing as the word
\* undefined; the year of `created`, printed in decimal), and the
\* extractor's value only when the record does not hold it.
C20_RegistryPrecedence ==
    (metaOut.done /\ metaIn.imp # "legacy") =>
        LET cr == metaIn.cr
            item == metaIn.item
            hasTitle == cr.found /\ cr.title \notin {<< >>, <<"">>}
            hasAuthors == cr.found /\ cr.author.present
            hasYear == cr.found /\ cr.created # << >>
        IN  /\ metaOut.title = (IF hasTitle THEN cr.title[1] ELSE item.title)
            /\ IF hasAuthors
               THEN /\ Len(metaOut.authors) = Len(cr.author.list)
                    /\ \A k \in 1..Len(cr.author.list) :
                          metaOut.authors[k] =
                              <<IF cr.author.list[k].given = "" THEN "undefined"
                                ELSE cr.author.list[k].given,
                                " ", cr.author.list[k].family>>
               ELSE metaOut.authors = item.authors
            /\ IF hasYear
               THEN cr.created[1] = 2005 /\ metaOut.year = <<"2", "0", "0", "5">>
               ELSE metaOut.year = item.year

\* The extractor guessed all three fields, the registry holds all three, and
\* the citation carries the registry's
C20_Witness ==
    /\ metaOut.done /\ metaIn.imp = "client"
    /\ metaIn.item = [title |-> "T1", authors |-> ItemAuthors, year |-> ItemYear]
    /\ metaIn.cr.found /\ metaIn.cr.title = <<"Registry title">>
    /\ Len(metaIn.cr.author.list) = 2 /\ metaIn.cr.created # << >>
    /\ metaOut.title = "Registry title"
    /\ metaOut.authors[1] = <<"Ada", " ", "Lovelace">>
    /\ metaOut.year = <<"2", "0", "0", "5">>

\* C21: in a result returned by the client pipeline the confidenceScore of
\* every citation is the one that goes with its final status: VERIFIED 0.99,
\* PARTIAL_MATCH 0.75, UNVERIFIED 0.5, HALLUCINATION 0.95, also when the
\* review changed the status.
C21_ConfidenceMatchesStatus ==
    (HasResult /\ impl = "client") =>
        \A i \in 1..Len(Final) :
            /\ Final[i].status = VERIFIED => Final[i].confidenceScore = ConfVerified
            /\ Final[i].status = PARTIAL_MATCH => Final[i].confidenceScore = ConfPartial
            /\ Final[i].status = UNVERIFIED => Final[i].confidenceScore = ConfDefault
            /\ Final[i].status = HALLUCINATION =>
                  Final[i].confidenceScore = ConfHallucination

\* C22: in every returned result the three counters add up to the total:
\* summary.verified + summary.hallucinated + summary.unverified =
\* summary.total.
C22_SummaryPartition ==
    HasResult =>
        LET sm == outcome.result.summary
        IN  sm.verified + sm.hallucinated + sm.unverified = sm.total

C24_Started == pending' > pending
C24_Blocked == HandleProcess /\ QuotaExhausted(state)
C24_QuotaNeverOverdrawn ==
    /\ [](state.analysesRemaining >= 0 /\ pending <= 1 /\ (pending = 1 <=> isProcessing))
    /\ [][C24_Started => ~QuotaExhausted(state) /\ pending = 0]_vars
    /\ [][C24_Blocked => /\ pending' = pending
                         /\ isProcessing' = isProcessing
                         /\ state'.view = "pricing"
                         /\ state'.error = LimitMessage
                         /\ state'.analysesRemaining = state.analysesRemaining]_vars

\* the quota was used up and a further start was turned away
C24_Witness ==
    /\ pc = "app"
    /\ state.userTier = FREE /\ state.analysesRemaining = 0
    /\ state.view = "pricing" /\ state.error = LimitMessage
    /\ state.results.present
    /\ pending = 0 /\ ~isProcessing

\* C25: a failed verification run changes nothing but the error.  The step
\* in which parseAndVerifyCitations rejects leaves view, results, userTier,
\* isLoggedIn, analysesRemaining (and inputText) as they were, sets error to
\* the failure message and resets isProcessing; the step that started the run
\* changed only error (cleared) and isProcessing; and isProcessing, once
\* true, is eventually false again, after a failed run as after a
\* successful one.
C25_OnlyError(st) == [st EXCEPT !.error = ""]
C25_RunStarts == HandleProcess /\ pending' = pending + 1
C25_FailedRunChangesOnlyError ==
    /\ [][RunRejects => /\ C25_OnlyError(state') = C25_OnlyError(state)
                        /\ state'.error = FailureMessage
                        /\ ~isProcessing']_vars
    /\ [][C25_RunStarts => /\ C25_OnlyError(state') = C25_OnlyError(state)
                           /\ state'.error = ""
                           /\ isProcessing']_vars
    /\ (isProcessing ~> ~isProcessing)

\* a run failed after an earlier one had succeeded: the earlier results and
\* the quota left by the earlier run are still there
C25_Witness ==
    /\ pc = "app"
    /\ state.error = FailureMessage
    /\ ~isProcessing /\ pending = 0
    /\ state.view = "input"
    /\ state.results = SomeResults
    /\ state.userTier = FREE
    /\ state.analysesRemaining = InitialAnalyses - 1

\* C26: in every state of the App, view = 'results' implies results # null,
\* whatever sequence of navigation, processing, login, upgrade and payment
\* actions led to it.
C26_ResultsViewHasResults ==
    (pc = "app" /\ state.view = "results") => state.results.present

====
